---- MODULE Spec2Model ----
(***************************************************************************)
(* A model of src/app.py: GitHubPRReviewer (parse_github_url,              *)
(* fetch_pr_data, format_pr_for_review, generate_review) and main().       *)
(*                                                                         *)
(* Python values are tagged records: None is [t |-> "None"], a str is      *)
(* [t |-> "str", s |-> text], an int is [t |-> "int", n |-> ...].  A text  *)
(* is a sequence of chunks (strings); concatenation is \o.  The text of a  *)
(* URL and of a formatted number is a sequence of one-character chunks, so *)
(* that re.match and "contains the status code" are computed character by  *)
(* character.  A title, a patch or an error description is one opaque      *)
(* chunk, and a template literal of an f-string is cut into chunks at the  *)
(* places the properties look at.                                          *)
(***************************************************************************)
EXTENDS Integers, Sequences, FiniteSets, TLC

VARIABLES
    mode,               \* which entry point this run exercises
    pc,                 \* control position
    github_token,       \* os.getenv('GITHUB_TOKEN')
    anthropic_api_key,  \* os.getenv('ANTHROPIC_API_KEY')
    client,             \* self.client
    ui,                 \* what streamlit has been asked to display, in order
    github_url,         \* the text input
    parsed,             \* (owner, repo, pr_number) as returned by parse_github_url
    gets,               \* the GET requests issued so far, in order
    pr_response,        \* the answer to the metadata GET
    files_response,     \* the answer to the files GET
    fetched,            \* (data, error) as returned by fetch_pr_data
    data,               \* the argument of format_pr_for_review
    pr_text,            \* the document returned by format_pr_for_review
    completions,        \* the messages.create calls issued so far, in order
    review,             \* the value returned by generate_review
    stages,             \* the stages of main started so far, in order
    fault               \* an exception nothing caught

vars == <<mode, pc, github_token, anthropic_api_key, client, ui, github_url,
          parsed, gets, pr_response, files_response, fetched, data, pr_text,
          completions, review, stages, fault>>

----------------------------------------------------------------------------
(* Bounds of the model. *)

\* longest text tried after "/pull/" in a URL (the number and what follows it)
MaxTailLen == 3
\* longest file list tried
MaxFiles == 2

----------------------------------------------------------------------------
(* Python values. *)

NONE == [t |-> "None"]

PyStr(s) == [t |-> "str", s |-> s]

PyInt(n) == [t |-> "int", n |-> n]

\* bool(v) is False: None, the empty str, the int 0
Falsy(v) ==
    \/ v = NONE
    \/ (v.t = "str" /\ v.s = <<>>)
    \/ (v.t = "int" /\ v.n = 0)

DigitText == <<"0", "1", "2", "3", "4", "5", "6", "7", "8", "9">>

\* str(n) of a non-negative int, one chunk per digit
RECURSIVE Str(_)
Str(n) ==
    IF n < 10 THEN <<DigitText[n + 1]>>
    ELSE Append(Str(n \div 10), DigitText[(n % 10) + 1])

\* all sequences over S of length at most n
RECURSIVE SeqsUpTo(_, _)
SeqsUpTo(S, n) ==
    IF n = 0 THEN {<<>>}
    ELSE LET shorter == SeqsUpTo(S, n - 1)
         IN  shorter \cup {Append(q, c) : q \in shorter, c \in S}

----------------------------------------------------------------------------
(* parse_github_url: re.match of                                           *)
(*   https://github\.com/([^/]+)/([^/]+)/pull/(\d+)                         *)
(* at the start of the url; match.groups() on a match.                     *)

HostLit == <<"h", "t", "t", "p", "s", ":", "/", "/",
             "g", "i", "t", "h", "u", "b", ".", "c", "o", "m", "/">>

PullLit == <<"/", "p", "u", "l", "l", "/">>

Digits == {"0", "1", "2", "3", "4", "5", "6", "7", "8", "9"}

\* the pattern's literal lit stands in s at position i
LitAt(s, i, lit) ==
    /\ i + Len(lit) - 1 <= Len(s)
    /\ SubSeq(s, i, i + Len(lit) - 1) = lit

\* [^/]+ from position i, greedy: the position after the last character taken
RECURSIVE EndOfNonSlash(_, _)
EndOfNonSlash(s, i) ==
    IF i <= Len(s) /\ s[i] # "/" THEN EndOfNonSlash(s, i + 1) ELSE i

\* \d+ from position i, greedy: the position after the last digit taken
RECURSIVE EndOfDigits(_, _)
EndOfDigits(s, i) ==
    IF i <= Len(s) /\ s[i] \in Digits THEN EndOfDigits(s, i + 1) ELSE i

NoMatch == [t |-> "NoMatch"]

\* The same matcher anchored at both ends (re.fullmatch).
re_fullmatch(s) ==
    IF ~LitAt(s, 1, HostLit) THEN NoMatch
    ELSE LET o1 == Len(HostLit) + 1
             o2 == EndOfNonSlash(s, o1)
         IN  IF o2 = o1 \/ ~LitAt(s, o2, <<"/">>) THEN NoMatch
             ELSE LET r1 == o2 + 1
                      r2 == EndOfNonSlash(s, r1)
                  IN  IF r2 = r1 \/ ~LitAt(s, r2, PullLit) THEN NoMatch
                      ELSE LET n1 == r2 + Len(PullLit)
                               n2 == EndOfDigits(s, n1)
                           IN  IF n2 = n1 \/ n2 # Len(s) + 1 THEN NoMatch
                               ELSE <<PyStr(SubSeq(s, o1, o2 - 1)),
                                      PyStr(SubSeq(s, r1, r2 - 1)),
                                      PyStr(SubSeq(s, n1, n2 - 1))>>

\* re.match(pattern, url): NoMatch, or the three groups.  A group [^/]+ is
\* followed in the pattern by "/", so giving back characters never helps and
\* the greedy choice is the only one; nothing follows \d+, so it takes every
\* digit there is and whatever comes after the digits is left unread.
re_match(s) ==
    IF ~LitAt(s, 1, HostLit) THEN NoMatch
    ELSE LET o1 == Len(HostLit) + 1
             o2 == EndOfNonSlash(s, o1)
         IN  IF o2 = o1 \/ ~LitAt(s, o2, <<"/">>) THEN NoMatch
             ELSE LET r1 == o2 + 1
                      r2 == EndOfNonSlash(s, r1)
                  IN  IF r2 = r1 \/ ~LitAt(s, r2, PullLit) THEN NoMatch
                      ELSE LET n1 == r2 + Len(PullLit)
                               n2 == EndOfDigits(s, n1)
                           IN  IF n2 = n1 THEN NoMatch
                               ELSE <<PyStr(SubSeq(s, o1, o2 - 1)),
                                      PyStr(SubSeq(s, r1, r2 - 1)),
                                      PyStr(SubSeq(s, n1, n2 - 1))>>

None3 == <<NONE, NONE, NONE>>

parse_github_url(url) ==
    LET match == re_match(url)
    IN  IF match # NoMatch THEN match ELSE None3

----------------------------------------------------------------------------
(* The URLs tried. *)

UrlHeads ==
    { HostLit,
      [HostLit EXCEPT ![9] = "G"],               \* https://Github.com/
      SubSeq(HostLit, 1, 4) \o SubSeq(HostLit, 6, Len(HostLit)),  \* http://
      SubSeq(HostLit, 1, Len(HostLit) - 1),      \* no slash after the host
      <<" ">> \o HostLit }                       \* a leading blank

UrlSegments == { <<>>, <<"o">>, <<"O", "-", "w">> }

UrlPulls ==
    { PullLit,
      [PullLit EXCEPT ![2] = "P"],               \* /Pull/
      SubSeq(PullLit, 1, 5) \o <<"s", "/">>,     \* /pulls/
      SubSeq(PullLit, 1, 5) }                    \* /pull

UrlTails == SeqsUpTo({"4", "2", "/", "?"}, MaxTailLen)

ParseUrls ==
    { h \o o \o <<"/">> \o r \o p \o x :
        h \in UrlHeads, o \in UrlSegments, r \in UrlSegments,
        p \in UrlPulls, x \in UrlTails }

----------------------------------------------------------------------------
(* JSON values as the code reads them.  A dict is a function from its keys *)
(* to its values; d[k] of a key that is not there raises KeyError.         *)

Has(d, k) == k \in DOMAIN d

Without(d, k) == [x \in DOMAIN d \ {k} |-> d[x]]

\* a text contains the text sub, as consecutive chunks
Contains(text, sub) ==
    \E i \in 1..(Len(text) - Len(sub) + 1) :
        SubSeq(text, i, i + Len(sub) - 1) = sub

\* how often the chunk c occurs in a text
Count(text, c) == Cardinality({i \in 1..Len(text) : text[i] = c})

Raise(type, text) == [t |-> "raise", type |-> type, text |-> text]

KeyError(k) == Raise("KeyError", <<"'", k, "'">>)

Return(v) == [t |-> "return", v |-> v]

----------------------------------------------------------------------------
(* format_pr_for_review *)

Placeholder == <<"No description provided">>

\* the opening fence of a diff block; ~~~ stands for the three backquotes of
\* the source, which a TLA+ string cannot hold
FenceOpen == "~~~diff"

FenceClose == "~~~"

SectionMark == "### "

PrKeys == <<"title", "user", "state", "created_at", "updated_at", "body">>

FileKeys == <<"filename", "status", "additions", "deletions">>

\* the first key of keys that d lacks, or "" when it has them all
RECURSIVE FirstMissing(_, _)
FirstMissing(d, keys) ==
    IF keys = <<>> THEN ""
    ELSE IF ~Has(d, Head(keys)) THEN Head(keys)
    ELSE FirstMissing(d, Tail(keys))

\* lines 63-75: the header block.  The f-string reads title, user, login,
\* state, created_at, updated_at and body in this order.
format_header(pr, files) ==
    IF Has(pr, "title") /\ Has(pr, "user") /\ ~Has(pr.user, "login")
    THEN KeyError("login")
    ELSE IF FirstMissing(pr, PrKeys) # "" THEN KeyError(FirstMissing(pr, PrKeys))
    ELSE Return(
        <<"\n## Pull Request Information\n**Title:** ">> \o pr.title
        \o <<"\n**Author:** ">> \o pr.user.login
        \o <<"\n**State:** ">> \o pr.state
        \o <<"\n**Created:** ">> \o pr.created_at
        \o <<"\n**Updated:** ">> \o pr.updated_at
        \o <<"\n\n**Description:**\n">>
        \o (IF Falsy(pr.body) THEN Placeholder ELSE pr.body.s)
        \o <<"\n\n## Files Changed (">> \o Str(Len(files)) \o <<" files):\n">>)

\* Lines 78-83 with the test of the status left out.
format_file_any_status(file) ==
    IF FirstMissing(file, FileKeys) # "" THEN KeyError(FirstMissing(file, FileKeys))
    ELSE Return(
        <<"\n", SectionMark>> \o file.filename
        \o <<"\n- **Status:** ">> \o file.status
        \o <<"\n- **Additions:** ">> \o Str(file.additions)
        \o <<", **Deletions:** ">> \o Str(file.deletions)
        \o (IF Has(file, "patch")
            THEN <<"\n\n**Changes:**\n", FenceOpen, "\n">> \o file.patch
                 \o <<"\n", FenceClose, "\n">>
            ELSE <<>>))

\* lines 78-83: one file's section
format_file(file) ==
    IF FirstMissing(file, FileKeys) # "" THEN KeyError(FirstMissing(file, FileKeys))
    ELSE Return(
        <<"\n", SectionMark>> \o file.filename
        \o <<"\n- **Status:** ">> \o file.status
        \o <<"\n- **Additions:** ">> \o Str(file.additions)
        \o <<", **Deletions:** ">> \o Str(file.deletions)
        \o (IF file.status # <<"removed">> /\ Has(file, "patch")
            THEN <<"\n\n**Changes:**\n", FenceOpen, "\n">> \o file.patch
                 \o <<"\n", FenceClose, "\n">>
            ELSE <<>>))

\* lines 77-83: the loop, appending to what is formatted so far
RECURSIVE format_files(_, _)
format_files(formatted, files) ==
    IF files = <<>> THEN Return(formatted)
    ELSE LET one == format_file(Head(files))
         IN  IF one.t = "raise" THEN one
             ELSE format_files(formatted \o one.v, Tail(files))

\* Return(document) or the exception raised
format_pr_for_review(d) ==
    IF d = NONE THEN Raise("TypeError", <<"'NoneType' object is not subscriptable">>)
    ELSE IF ~Has(d, "pr") THEN KeyError("pr")
    ELSE IF ~Has(d, "files") THEN KeyError("files")
    ELSE LET head == format_header(d.pr, d.files)
         IN  IF head.t = "raise" THEN head
             ELSE format_files(head.v, d.files)

----------------------------------------------------------------------------
(* The pull requests and file lists tried. *)

Bodies == { NONE, PyStr(<<>>), PyStr(<<"Fixes the bug">>) }

FullPr(body) ==
    [ title |-> <<"Fix bug">>, user |-> [login |-> <<"alice">>],
      state |-> <<"open">>, created_at |-> <<"2024-01-01T00:00:00Z">>,
      updated_at |-> <<"2024-01-02T00:00:00Z">>, body |-> body ]

WellFormedPrs == { FullPr(b) : b \in Bodies }

MalformedPrs ==
    { Without(FullPr(NONE), "title"),
      Without(FullPr(PyStr(<<"Fixes the bug">>)), "body"),
      [FullPr(NONE) EXCEPT !.user = Without(FullPr(NONE).user, "login")] }

PrDicts == WellFormedPrs \cup MalformedPrs

FileOf(name, status, additions, deletions) ==
    [ filename |-> <<name>>, status |-> <<status>>,
      additions |-> additions, deletions |-> deletions ]

WithPatch(file, patch) ==
    [k \in DOMAIN file \cup {"patch"} |->
        IF k = "patch" THEN <<patch>> ELSE file[k]]

WellFormedFiles ==
    { WithPatch(FileOf("a.py", "added", 12, 0), "@@ -0,0 +1,12 @@"),
      FileOf("b.py", "removed", 0, 7),
      WithPatch(FileOf("c.py", "removed", 0, 3), "@@ -1,3 +0,0 @@"),
      FileOf("d.png", "modified", 0, 0) }

MalformedFiles == { Without(FileOf("e.py", "modified", 1, 1), "additions") }

FileDicts == WellFormedFiles \cup MalformedFiles

FileLists == SeqsUpTo(FileDicts, MaxFiles)

WellFormedFileLists == SeqsUpTo(WellFormedFiles, MaxFiles)

FormatInputs == { [pr |-> p, files |-> f] : p \in PrDicts, f \in FileLists }

----------------------------------------------------------------------------
(* fetch_pr_data *)

HTTP_OK == 200

Response(status, body) == [t |-> "response", status |-> status, body |-> body]

\* a body response.json() decodes to v
JsonBody(v) == [json |-> TRUE, v |-> v]

\* a body response.json() raises on
NotJson == [json |-> FALSE]

JsonErrorText == <<"Expecting value: line 1 column 1 (char 0)">>

NetworkErrorText == <<"Connection refused">>

\* str(v) as an f-string interpolates it
Format(v) ==
    IF v = NONE THEN <<"None">>
    ELSE IF v.t = "str" THEN v.s
    ELSE Str(v.n)

\* lines 30-36: the request of one endpoint ("pr" or "files")
Request(endpoint, owner, repo, pr_number, token) ==
    [ endpoint |-> endpoint,
      url |-> <<"https://api.github.com/repos/">> \o Format(owner) \o <<"/">>
              \o Format(repo) \o <<"/pulls/">> \o Format(pr_number)
              \o (IF endpoint = "files" THEN <<"/files">> ELSE <<>>),
      authorization |-> <<"token ">> \o Format(token),
      accept |-> <<"application/vnd.github.v3+json">> ]

\* line 57: the except clause
fetch_except(text) == <<NONE, PyStr(<<"Error: ">> \o text)>>

\* lines 42-54 (and 56-57 for a body json() raises on): what fetch_pr_data
\* returns once both GETs have answered
fetch_outcome(pr_resp, files_resp) ==
    IF pr_resp.status # HTTP_OK
    THEN <<NONE, PyStr(<<"Error fetching PR: ">> \o Str(pr_resp.status))>>
    ELSE IF files_resp.status # HTTP_OK
    THEN <<NONE, PyStr(<<"Error fetching PR files: ">> \o Str(files_resp.status))>>
    ELSE IF ~pr_resp.body.json \/ ~files_resp.body.json
    THEN fetch_except(JsonErrorText)
    ELSE <<[pr |-> pr_resp.body.v, files |-> files_resp.body.v], NONE>>

\* The answers of the hosting API tried: a status other than 200 comes with
\* a body the code never reads.
Statuses == {204, 401, 404}

PrAnswers ==
    { Response(st, NotJson) : st \in Statuses }
    \cup { Response(HTTP_OK, JsonBody(p)) : p \in PrDicts }
    \cup { Response(HTTP_OK, NotJson) }

FilesAnswers ==
    { Response(st, NotJson) : st \in Statuses }
    \cup { Response(HTTP_OK, JsonBody(f)) : f \in FileLists }
    \cup { Response(HTTP_OK, NotJson) }

----------------------------------------------------------------------------
(* generate_review *)

MAX_TOKENS == 4000

NotConfigured == <<"Claude API key not configured">>

PromptHead ==
    <<"Please review this GitHub Pull Request and provide:\n\n",
      "1. **Summary**", "2. **Code Quality**", "3. **Potential Issues**",
      "4. **Suggestions**", "5. **Overall Assessment**",
      "Here's the PR data:\n\n">>

\* lines 104-110: the arguments of messages.create
Completion(text) ==
    [ model |-> "claude-3-sonnet-20240229", max_tokens |-> MAX_TOKENS,
      messages |-> <<[role |-> "user", content |-> PromptHead \o text]>> ]

\* What messages.create does: it returns a message with content blocks (a
\* list that may be empty) or raises.
ApiAnswers ==
    { [t |-> "message", content |-> <<[text |-> <<"## Summary: looks good">>]>>],
      [t |-> "message", content |-> <<>>],
      Raise("APIStatusError", <<"rate_limit_error">>),
      Raise("APIConnectionError", <<"Connection error.">>) }

\* lines 111-113: the value returned for an answer of messages.create
review_of(answer) ==
    IF answer.t = "raise"
    THEN PyStr(<<"Error generating review: ">> \o answer.text)
    ELSE IF answer.content = <<>>
    THEN PyStr(<<"Error generating review: ">> \o <<"list index out of range">>)
    ELSE PyStr(answer.content[1].text)

----------------------------------------------------------------------------
(* main: what it displays *)

Shown(kind, text) == [kind |-> kind, text |-> text]

\* sum(f[key] for f in files) where every file has the key
RECURSIVE Sum(_, _)
Sum(files, key) ==
    IF files = <<>> THEN 0 ELSE Head(files)[key] + Sum(Tail(files), key)

\* lines 157-170: the PR details column.  Return(what is displayed) or the
\* exception raised.
details_view(d) ==
    IF d = NONE THEN Raise("TypeError", <<"'NoneType' object is not subscriptable">>)
    ELSE LET pr == d.pr
             files == d.files
         IN  IF ~Has(pr, "title") THEN KeyError("title")
             ELSE IF ~Has(pr, "user") THEN KeyError("user")
             ELSE IF ~Has(pr.user, "login") THEN KeyError("login")
             ELSE IF ~Has(pr, "state") THEN KeyError("state")
             ELSE IF \E i \in 1..Len(files) : ~Has(files[i], "additions")
             THEN KeyError("additions")
             ELSE IF \E i \in 1..Len(files) : ~Has(files[i], "deletions")
             THEN KeyError("deletions")
             ELSE IF ~Has(pr, "body") THEN KeyError("body")
             ELSE Return(
                 << Shown("markdown", <<"**Title:** ">> \o pr.title),
                    Shown("markdown", <<"**Author:** ">> \o pr.user.login),
                    Shown("markdown", <<"**State:** ">> \o pr.state),
                    Shown("markdown", <<"**Files Changed:** ">> \o Str(Len(files))),
                    Shown("markdown", <<"**Changes:** +">> \o Str(Sum(files, "additions"))
                                      \o <<" -">> \o Str(Sum(files, "deletions"))) >>
                 \o (IF Falsy(pr.body) THEN <<>>
                     ELSE << Shown("markdown", <<"**Description:**">>),
                             Shown("markdown", pr.body.s) >>))

\* lines 183-187: one file of the expander
expander_file(file) ==
    << Shown("markdown", <<SectionMark>> \o file.filename),
       Shown("markdown", <<"**Status:** ">> \o file.status \o <<" | **+">>
                         \o Str(file.additions) \o <<" -">>
                         \o Str(file.deletions) \o <<"**">>) >>
    \o (IF file.status # <<"removed">> /\ Has(file, "patch")
        THEN <<Shown("code", file.patch)>> ELSE <<>>)

\* lines 181-187
RECURSIVE expander_view(_)
expander_view(files) ==
    IF files = <<>> THEN <<>>
    ELSE expander_file(Head(files)) \o expander_view(Tail(files))

----------------------------------------------------------------------------
(* The steps. *)

\* where a run of the given entry point starts after __init__
Entry(m) ==
    CASE m = "main" -> "main_check_url"
      [] m = "parse" -> "parse"
      [] m = "fetch" -> "fetch_get_pr"
      [] m = "format" -> "format"
      [] m = "generate" -> "gen_check_client"

\* where control goes when the method at stage returns to its caller
After(stage) ==
    IF mode # "main" THEN "done"
    ELSE CASE stage = "parse" -> "main_check_parsed"
           [] stage = "fetch" -> "main_check_error"
           [] stage = "format" -> "gen_check_client"
           [] stage = "generate" -> "main_show_review"

\* lines 11-20: GitHubPRReviewer.__init__
Construct ==
    /\ pc = "init"
    /\ client' = IF Falsy(anthropic_api_key) THEN NONE
                 ELSE [t |-> "Anthropic", api_key |-> anthropic_api_key]
    /\ ui' = ui
             \o (IF Falsy(github_token)
                 THEN <<Shown("error", <<"Please set GITHUB_TOKEN in your environment variables">>)>>
                 ELSE <<>>)
             \o (IF Falsy(anthropic_api_key)
                 THEN <<Shown("error", <<"Please set ANTHROPIC_API_KEY in your environment variables">>)>>
                 ELSE <<>>)
    /\ pc' = Entry(mode)
    /\ UNCHANGED <<mode, github_token, anthropic_api_key, github_url, parsed,
                   gets, pr_response, files_response, fetched, data, pr_text,
                   completions, review, stages, fault>>

\* lines 133-136: the button is pressed; an empty input ends the run
MainCheckUrl ==
    /\ pc = "main_check_url"
    /\ IF github_url = <<>>
       THEN /\ ui' = Append(ui, Shown("error", <<"Please enter a GitHub PR URL">>))
            /\ pc' = "done"
       ELSE /\ ui' = ui
            /\ pc' = "parse"
    /\ UNCHANGED <<mode, github_token, anthropic_api_key, client, github_url,
                   parsed, gets, pr_response, files_response, fetched, data,
                   pr_text, completions, review, stages, fault>>

\* lines 22-27 (line 138 in main)
ParseUrl ==
    /\ pc = "parse"
    /\ stages' = Append(stages, "parse")
    /\ parsed' = parse_github_url(github_url)
    /\ pc' = After("parse")
    /\ UNCHANGED <<mode, github_token, anthropic_api_key, client, ui,
                   github_url, gets, pr_response, files_response, fetched,
                   data, pr_text, completions, review, fault>>

InvalidUrlText ==
    <<"Invalid GitHub PR URL format. Please use: https://github.com/owner/repo/pull/123">>

\* Lines 140-142 without the return.
MainCheckParsed_NoReturn ==
    /\ pc = "main_check_parsed"
    /\ ui' = IF Falsy(parsed[1]) \/ Falsy(parsed[2]) \/ Falsy(parsed[3])
             THEN Append(ui, Shown("error", InvalidUrlText)) ELSE ui
    /\ pc' = "fetch_get_pr"
    /\ UNCHANGED <<mode, github_token, anthropic_api_key, client, github_url,
                   parsed, gets, pr_response, files_response, fetched, data,
                   pr_text, completions, review, stages, fault>>

\* lines 140-142
MainCheckParsed ==
    /\ pc = "main_check_parsed"
    /\ IF Falsy(parsed[1]) \/ Falsy(parsed[2]) \/ Falsy(parsed[3])
       THEN /\ ui' = Append(ui, Shown("error", InvalidUrlText))
            /\ pc' = "done"
       ELSE /\ ui' = ui
            /\ pc' = "fetch_get_pr"
    /\ UNCHANGED <<mode, github_token, anthropic_api_key, client, github_url,
                   parsed, gets, pr_response, files_response, fetched, data,
                   pr_text, completions, review, stages, fault>>

\* line 39: the metadata GET answers or raises
FetchGetPr ==
    /\ pc = "fetch_get_pr"
    /\ stages' = Append(stages, "fetch")
    /\ gets' = Append(gets, Request("pr", parsed[1], parsed[2], parsed[3], github_token))
    /\ \/ \E answer \in PrAnswers :
            /\ pr_response' = answer
            /\ pc' = "fetch_get_files"
            /\ UNCHANGED fetched
       \/ /\ fetched' = fetch_except(NetworkErrorText)
          /\ pc' = After("fetch")
          /\ UNCHANGED pr_response
    /\ UNCHANGED <<mode, github_token, anthropic_api_key, client, ui,
                   github_url, parsed, files_response, data, pr_text,
                   completions, review, fault>>

\* line 40: the files GET answers or raises
FetchGetFiles ==
    /\ pc = "fetch_get_files"
    /\ gets' = Append(gets, Request("files", parsed[1], parsed[2], parsed[3], github_token))
    /\ \/ \E answer \in FilesAnswers :
            /\ files_response' = answer
            /\ pc' = "fetch_check"
            /\ UNCHANGED fetched
       \/ /\ fetched' = fetch_except(NetworkErrorText)
          /\ pc' = After("fetch")
          /\ UNCHANGED files_response
    /\ UNCHANGED <<mode, github_token, anthropic_api_key, client, ui,
                   github_url, parsed, pr_response, data, pr_text,
                   completions, review, stages, fault>>

\* lines 42-57
FetchReturn ==
    /\ pc = "fetch_check"
    /\ fetched' = fetch_outcome(pr_response, files_response)
    /\ pc' = After("fetch")
    /\ UNCHANGED <<mode, github_token, anthropic_api_key, client, ui,
                   github_url, parsed, gets, pr_response, files_response,
                   data, pr_text, completions, review, stages, fault>>

\* lines 145-151
MainCheckError ==
    /\ pc = "main_check_error"
    /\ IF ~Falsy(fetched[2])
       THEN /\ ui' = Append(ui, Shown("error", fetched[2].s))
            /\ pc' = "done"
            /\ UNCHANGED data
       ELSE /\ ui' = Append(ui, Shown("success", <<"PR data fetched successfully!">>))
            /\ data' = fetched[1]
            /\ pc' = "main_details"
    /\ UNCHANGED <<mode, github_token, anthropic_api_key, client, github_url,
                   parsed, gets, pr_response, files_response, fetched,
                   pr_text, completions, review, stages, fault>>

\* lines 155-170
MainDetails ==
    /\ pc = "main_details"
    /\ stages' = Append(stages, "details")
    /\ LET view == details_view(data)
       IN  IF view.t = "raise"
           THEN /\ fault' = view
                /\ pc' = "crashed"
                /\ ui' = ui
           ELSE /\ ui' = ui \o view.v
                /\ pc' = "format"
                /\ UNCHANGED fault
    /\ UNCHANGED <<mode, github_token, anthropic_api_key, client, github_url,
                   parsed, gets, pr_response, files_response, fetched, data,
                   pr_text, completions, review>>

\* lines 59-85 (line 176 in main)
FormatPr ==
    /\ pc = "format"
    /\ stages' = Append(stages, "format")
    /\ LET result == format_pr_for_review(data)
       IN  IF result.t = "raise"
           THEN /\ fault' = result
                /\ pc' = "crashed"
                /\ UNCHANGED pr_text
           ELSE /\ pr_text' = PyStr(result.v)
                /\ pc' = After("format")
                /\ UNCHANGED fault
    /\ UNCHANGED <<mode, github_token, anthropic_api_key, client, ui,
                   github_url, parsed, gets, pr_response, files_response,
                   fetched, data, completions, review>>

\* Lines 88-89 left out: the call is attempted whatever self.client is.
GenCheckClient_NoCheck ==
    /\ pc = "gen_check_client"
    /\ stages' = Append(stages, "generate")
    /\ pc' = "gen_call"
    /\ UNCHANGED <<mode, github_token, anthropic_api_key, client, ui,
                   github_url, parsed, gets, pr_response, files_response,
                   fetched, data, pr_text, completions, review, fault>>

\* lines 88-89 (line 177 in main)
GenCheckClient ==
    /\ pc = "gen_check_client"
    /\ stages' = Append(stages, "generate")
    /\ IF client = NONE
       THEN /\ review' = PyStr(NotConfigured)
            /\ pc' = After("generate")
       ELSE /\ pc' = "gen_call"
            /\ UNCHANGED review
    /\ UNCHANGED <<mode, github_token, anthropic_api_key, client, ui,
                   github_url, parsed, gets, pr_response, files_response,
                   fetched, data, pr_text, completions, fault>>

\* Lines 103-113 with the call made again after it has raised once.
GenCall_Retry ==
    /\ pc = "gen_call"
    /\ client # NONE
    /\ \E answer \in ApiAnswers :
          /\ completions' = Append(completions,
                                   [request |-> Completion(pr_text.s), answer |-> answer])
          /\ IF answer.t = "raise" /\ completions = <<>>
             THEN /\ pc' = "gen_call"
                  /\ UNCHANGED review
             ELSE /\ review' = review_of(answer)
                  /\ pc' = After("generate")
    /\ UNCHANGED <<mode, github_token, anthropic_api_key, client, ui,
                   github_url, parsed, gets, pr_response, files_response,
                   fetched, data, pr_text, stages, fault>>

\* lines 103-113: the one call of messages.create and what is made of its
\* answer.  With no client, self.client.messages raises AttributeError inside
\* the try before any call is issued.
GenCall ==
    /\ pc = "gen_call"
    /\ IF client = NONE
       THEN /\ review' = PyStr(<<"Error generating review: ">>
                               \o <<"'NoneType' object has no attribute 'messages'">>)
            /\ UNCHANGED completions
       ELSE \E answer \in ApiAnswers :
              /\ completions' = Append(completions,
                                       [request |-> Completion(pr_text.s), answer |-> answer])
              /\ review' = review_of(answer)
    /\ pc' = After("generate")
    /\ UNCHANGED <<mode, github_token, anthropic_api_key, client, ui,
                   github_url, parsed, gets, pr_response, files_response,
                   fetched, data, pr_text, stages, fault>>

\* line 179
MainShowReview ==
    /\ pc = "main_show_review"
    /\ ui' = Append(ui, Shown("markdown", review.s))
    /\ pc' = "main_expander"
    /\ UNCHANGED <<mode, github_token, anthropic_api_key, client, github_url,
                   parsed, gets, pr_response, files_response, fetched, data,
                   pr_text, completions, review, stages, fault>>

\* lines 181-187: every key read here was read by format_pr_for_review
MainExpander ==
    /\ pc = "main_expander"
    /\ ui' = ui \o expander_view(data.files)
    /\ pc' = "done"
    /\ UNCHANGED <<mode, github_token, anthropic_api_key, client, github_url,
                   parsed, gets, pr_response, files_response, fetched, data,
                   pr_text, completions, review, stages, fault>>

----------------------------------------------------------------------------
(* The specifications: main() as a whole, and each method called on its    *)
(* own with inputs drawn from the sets above.                              *)

Credentials == { NONE, PyStr(<<>>), PyStr(<<"secret">>) }

\* the state before __init__ runs
Start(m) ==
    /\ mode = m
    /\ pc = "init"
    /\ client = NONE
    /\ ui = <<>>
    /\ gets = <<>>
    /\ pr_response = NONE
    /\ files_response = NONE
    /\ fetched = NONE
    /\ completions = <<>>
    /\ review = NONE
    /\ stages = <<>>
    /\ fault = NONE

MainTail(tail) == HostLit \o <<"o", "c", "t", "/", "H", "-", "W">> \o PullLit \o tail

MainUrls ==
    { <<>>,
      MainTail(<<"4", "2">>),
      MainTail(<<"4", "2", "/", "f", "i", "l", "e", "s">>),
      MainTail(<<"0">>),
      MainTail(<<>>),
      [MainTail(<<"4", "2">>) EXCEPT ![9] = "G"] }

Init ==
    /\ Start("main")
    /\ github_token \in Credentials
    /\ anthropic_api_key \in Credentials
    /\ github_url \in MainUrls
    /\ parsed = NONE
    /\ data = NONE
    /\ pr_text = NONE

Next ==
    \/ Construct
    \/ MainCheckUrl
    \/ ParseUrl
    \/ MainCheckParsed
    \/ FetchGetPr
    \/ FetchGetFiles
    \/ FetchReturn
    \/ MainCheckError
    \/ MainDetails
    \/ FormatPr
    \/ GenCheckClient
    \/ GenCall
    \/ MainShowReview
    \/ MainExpander

Spec == Init /\ [][Next]_vars

InitParse ==
    /\ Start("parse")
    /\ github_token = PyStr(<<"secret">>)
    /\ anthropic_api_key = PyStr(<<"secret">>)
    /\ github_url \in ParseUrls
    /\ parsed = NONE
    /\ data = NONE
    /\ pr_text = NONE

NextParse == Construct \/ ParseUrl

SpecParse == InitParse /\ [][NextParse]_vars

InitFetch ==
    /\ Start("fetch")
    /\ github_token \in Credentials
    /\ anthropic_api_key = PyStr(<<"secret">>)
    /\ github_url = <<>>
    /\ parsed = <<PyStr(<<"o", "c", "t">>), PyStr(<<"H", "-", "W">>), PyStr(<<"4", "2">>)>>
    /\ data = NONE
    /\ pr_text = NONE

NextFetch == Construct \/ FetchGetPr \/ FetchGetFiles \/ FetchReturn

SpecFetch == InitFetch /\ [][NextFetch]_vars

InitFormat ==
    /\ Start("format")
    /\ github_token = PyStr(<<"secret">>)
    /\ anthropic_api_key = PyStr(<<"secret">>)
    /\ github_url = <<>>
    /\ parsed = NONE
    /\ data \in FormatInputs
    /\ pr_text = NONE

NextFormat == Construct \/ FormatPr

SpecFormat == InitFormat /\ [][NextFormat]_vars

\* the documents generate_review is given: the empty one, and what
\* format_pr_for_review makes of well-formed data
GenDocs ==
    { <<>> }
    \cup { format_pr_for_review([pr |-> p, files |-> f]).v :
             p \in WellFormedPrs, f \in WellFormedFileLists }

InitGenerate ==
    /\ Start("generate")
    /\ github_token = PyStr(<<"secret">>)
    /\ anthropic_api_key \in Credentials
    /\ github_url = <<>>
    /\ parsed = NONE
    /\ data = NONE
    /\ pr_text \in { PyStr(doc) : doc \in GenDocs }

NextGenerate == Construct \/ GenCheckClient \/ GenCall

SpecGenerate == InitGenerate /\ [][NextGenerate]_vars

----------------------------------------------------------------------------
(* The plain URL form, stated without the matcher:                         *)
(*   https://github.com/<owner>/<repo>/pull/<digits>                       *)
(* with owner and repo non-empty and free of "/", digits non-empty.        *)

SlashFree(text) == \A i \in 1..Len(text) : text[i] # "/"

AllDigits(text) == \A i \in 1..Len(text) : text[i] \in Digits

\* every (owner, repo, digits) with s = HostLit owner / repo PullLit digits
PlainParts(s) ==
    IF ~LitAt(s, 1, HostLit) THEN {}
    ELSE LET rest == SubSeq(s, Len(HostLit) + 1, Len(s))
             m == Len(rest)
             OwnerEnds == { a \in 1..m : /\ a < m
                                         /\ rest[a + 1] = "/"
                                         /\ SlashFree(SubSeq(rest, 1, a)) }
             RepoEnds(a) == { b \in (a + 2)..m :
                                 /\ LitAt(rest, b + 1, PullLit)
                                 /\ b + Len(PullLit) < m
                                 /\ SlashFree(SubSeq(rest, a + 2, b))
                                 /\ AllDigits(SubSeq(rest, b + Len(PullLit) + 1, m)) }
         IN  UNION { { << SubSeq(rest, 1, a), SubSeq(rest, a + 2, b),
                          SubSeq(rest, b + Len(PullLit) + 1, m) >> : b \in RepoEnds(a) }
                     : a \in OwnerEnds }

IsPlainUrl(s) == PlainParts(s) # {}

HasPlainPrefix(s) == \E k \in 1..Len(s) : IsPlainUrl(SubSeq(s, 1, k))

\* the number a text of digits denotes
RECURSIVE DecimalValue(_)
DecimalValue(text) ==
    IF text = <<>> THEN 0
    ELSE 10 * DecimalValue(SubSeq(text, 1, Len(text) - 1))
         + (CHOOSE d \in 0..9 : DigitText[d + 1] = text[Len(text)])

----------------------------------------------------------------------------
(* Claims about parse_github_url, under SpecParse. *)

\* C3, as stated: every input that is not exactly of the plain form, a
\* trailing slash, further path segments or a query string included, gets
\* (None, None, None).
C3_OnlyThePlainForm ==
    pc = "done" => (~IsPlainUrl(github_url) => parsed = None3)

\* C3, amended: parse_github_url returns (None, None, None) exactly for the
\* inputs that do not begin with a text of the plain form.  The match is
\* case-sensitive and nothing is normalised, but it is a match of a prefix:
\* whatever follows the digits is left unread and the URL is accepted.
C3_OnlyAPlainPrefix ==
    pc = "done" => (parsed = None3 <=> ~HasPlainPrefix(github_url))

\* C3's case: a URL that differs from the plain form only by the case of one
\* letter of the host has been parsed and rejected.
C3_Witness ==
    /\ pc = "done"
    /\ github_url = [HostLit EXCEPT ![9] = "G"] \o <<"o", "/", "o">> \o PullLit
                    \o <<"4", "2">>
    /\ parsed = None3

\* C4: for an input of the plain form, the owner and repo segments come back
\* unchanged and the number comes back as an integer.
C4_NumberIsAnInteger ==
    pc = "done" =>
        \A parts \in PlainParts(github_url) :
            parsed = <<PyStr(parts[1]), PyStr(parts[2]), PyInt(DecimalValue(parts[3]))>>

----------------------------------------------------------------------------
(* Claims about format_pr_for_review, under SpecFormat. *)

\* where the sections of a document start
SectionStarts(doc) == { i \in 1..Len(doc) : doc[i] = SectionMark }

\* the start of the k-th section
SectionStart(doc, k) ==
    CHOOSE i \in SectionStarts(doc) :
        Cardinality({ j \in SectionStarts(doc) : j <= i }) = k

\* the k-th section: from its mark to the chunk before the next mark
Section(doc, k) ==
    SubSeq(doc, SectionStart(doc, k),
           IF k < Cardinality(SectionStarts(doc))
           THEN SectionStart(doc, k + 1) - 1 ELSE Len(doc))

\* the fenced diff block holding a patch
DiffBlock(patch) == <<FenceOpen, "\n">> \o patch \o <<"\n", FenceClose>>

WantsDiff(file) == file.status # <<"removed">> /\ Has(file, "patch")

\* C5: the document has one section per file, in the order of the input, and
\* a section holds a fenced diff block exactly when its file is not removed
\* and has a patch; the diff blocks are as many as those files.
C5_DiffBlocks ==
    (pc = "done" /\ pr_text # NONE) =>
        LET doc == pr_text.s
            files == data.files
        IN  /\ Cardinality(SectionStarts(doc)) = Len(files)
            /\ \A k \in 1..Len(files) :
                  /\ LitAt(Section(doc, k), 2, files[k].filename)
                  /\ Count(Section(doc, k), FenceOpen) = (IF WantsDiff(files[k]) THEN 1 ELSE 0)
                  /\ WantsDiff(files[k]) => Contains(Section(doc, k), DiffBlock(files[k].patch))
            /\ Count(doc, FenceOpen)
                 = Cardinality({ k \in 1..Len(files) : WantsDiff(files[k]) })

\* C5's case: a removed file that carries a patch, followed by an added file
\* with a patch, has been formatted; the document holds one diff block.
C5_Witness ==
    /\ pc = "done"
    /\ pr_text # NONE
    /\ Len(data.files) = 2
    /\ data.files[1].status = <<"removed">> /\ Has(data.files[1], "patch")
    /\ data.files[2].status = <<"added">> /\ Has(data.files[2], "patch")
    /\ Count(pr_text.s, FenceOpen) = 1

\* every field but the body is there
CompleteButBody(d) ==
    /\ FirstMissing(d.pr, <<"title", "user", "state", "created_at", "updated_at">>) = ""
    /\ Has(d.pr.user, "login")
    /\ \A k \in 1..Len(d.files) : FirstMissing(d.files[k], FileKeys) = ""

DescriptionHead == <<"\n\n**Description:**\n">>

\* C6: once format_pr_for_review has run on data complete in every other
\* field, it has returned a document; the description is the placeholder
\* when the body is absent, null or empty, and the body itself, with no
\* placeholder, when the body is a non-empty text.
C6_PlaceholderOrBody ==
    (pc \in {"done", "crashed"} /\ CompleteButBody(data)) =>
        /\ pr_text # NONE
        /\ IF ~Has(data.pr, "body") \/ Falsy(data.pr.body)
           THEN Contains(pr_text.s, DescriptionHead \o Placeholder)
           ELSE /\ Contains(pr_text.s, DescriptionHead \o data.pr.body.s)
                /\ ~Contains(pr_text.s, Placeholder)

----------------------------------------------------------------------------
(* Claims about fetch_pr_data, under SpecFetch. *)

Returned(result) == result # NONE

IsError(result) == result[1] = NONE /\ result[2] # NONE /\ ~Falsy(result[2])

\* C1: whenever the metadata GET has answered with a status s outside
\* 200..299, what fetch_pr_data returns is no data and an error message that
\* contains s, whatever the files GET did.
C1_MetadataStatusReported ==
    (Returned(fetched) /\ pr_response # NONE /\ pr_response.status \notin 200..299) =>
        /\ IsError(fetched)
        /\ Contains(fetched[2].s, Str(pr_response.status))

\* C10: with no GITHUB_TOKEN in the environment, __init__ warns and raises
\* nothing, and whatever the hosting API answers, fetch_pr_data returns no
\* data and an error message.
C10_NoTokenNoData ==
    github_token = NONE =>
        /\ fault = NONE
        /\ pc # "init" =>
             \E i \in 1..Len(ui) : ui[i].kind = "error" /\ Contains(ui[i].text,
                 <<"Please set GITHUB_TOKEN in your environment variables">>)
        /\ Returned(fetched) => IsError(fetched)

----------------------------------------------------------------------------
(* Claims about generate_review, under SpecGenerate. *)

\* C7: with no API credential, generate_review issues no completion call and
\* raises nothing, and what it returns is the fixed "not configured" message,
\* whatever the document.
C7_NotConfigured ==
    Falsy(anthropic_api_key) =>
        /\ completions = <<>>
        /\ fault = NONE
        /\ pc # "crashed"
        /\ pc = "done" => review = PyStr(NotConfigured)

\* C7's case: generate_review has returned for a non-empty document with no
\* ANTHROPIC_API_KEY in the environment.
C7_Witness ==
    /\ pc = "done"
    /\ anthropic_api_key = NONE
    /\ pr_text.s # <<>>
    /\ review = PyStr(NotConfigured)

----------------------------------------------------------------------------
(* Claims about main, under Spec. *)

GetsOf(endpoint) == { i \in 1..Len(gets) : gets[i].endpoint = endpoint }

Started(stage) == \E i \in 1..Len(stages) : stages[i] = stage

BothGetsSucceeded ==
    /\ Cardinality(GetsOf("pr")) = 1 /\ Cardinality(GetsOf("files")) = 1
    /\ pr_response # NONE /\ pr_response.status = 200 /\ pr_response.body.json
    /\ files_response # NONE /\ files_response.status = 200 /\ files_response.body.json
    /\ Returned(fetched) /\ fetched[2] = NONE

StageOrder == <<"parse", "fetch", "details", "format", "generate">>

\* C2: the stages start in order, each after the one before; no GET is issued
\* for a URL the parser rejected; the formatter and the completion call start
\* only after both GETs have succeeded.
C2_StagesInOrder ==
    /\ Len(stages) <= Len(StageOrder) /\ stages = SubSeq(StageOrder, 1, Len(stages))
    /\ gets # <<>> => (parsed # NONE /\ parsed # None3 /\ HasPlainPrefix(github_url))
    /\ (Started("format") \/ Started("generate") \/ completions # <<>>) => BothGetsSucceeded

\* C2's case: a run has gone through every stage to the completion call.
C2_Witness ==
    /\ pc = "done"
    /\ Started("format")
    /\ completions # <<>>
    /\ BothGetsSucceeded

\* C8: in one run each GET is issued at most once and at most one completion
\* call is made; once generate_review has returned with a client configured
\* it has made exactly one call, and when that call raised, what it returned
\* is the error message of that failure.
C8_NoRetry ==
    /\ Cardinality(GetsOf("pr")) <= 1
    /\ Cardinality(GetsOf("files")) <= 1
    /\ Len(completions) <= 1
    /\ (review # NONE /\ client # NONE) =>
          /\ Len(completions) = 1
          /\ completions[1].answer.t = "raise" =>
                review = PyStr(<<"Error generating review: ">> \o completions[1].answer.text)

\* C8's case: a run has ended after both GETs and one completion call that
\* raised.
C8_Witness ==
    /\ pc = "done"
    /\ Len(gets) = 2
    /\ Len(completions) = 1
    /\ completions[1].answer.t = "raise"
    /\ review # NONE

\* a 200 answer whose body is not what the code reads from it
MalformedPrBody(body) ==
    \/ ~body.json
    \/ FirstMissing(body.v, PrKeys) # ""
    \/ ~Has(body.v.user, "login")

MalformedFilesBody(body) ==
    \/ ~body.json
    \/ \E k \in 1..Len(body.v) : FirstMissing(body.v[k], FileKeys) # ""

\* C9: no exception goes uncaught, and when a GET answers 200 with a
\* malformed body, fetch_pr_data returns an error and no data.
C9_NoUncaughtFault ==
    /\ fault = NONE
    /\ pc # "crashed"
    /\ ( /\ Returned(fetched)
         /\ pr_response # NONE /\ pr_response.status = 200
         /\ files_response # NONE /\ files_response.status = 200
         /\ (MalformedPrBody(pr_response.body) \/ MalformedFilesBody(files_response.body)) )
       => IsError(fetched)

====
